---------------------------- MODULE Spec2Model ----------------------------
(***************************************************************************)
(* The adaptive 2D block tree of quantum_check_final.py: a quadtree of     *)
(* BlockNode2D blocks holding exact fractions, evolved by flow_step_2d,    *)
(* normalize_tree_2d and adaptive_split_merge_2d.                          *)
(*                                                                         *)
(* A block is a record with the fields of BlockNode2D.__slots__.  The      *)
(* field children is a sequence of blocks; the empty sequence stands for   *)
(* Python's None (a leaf): the code never stores an empty list, because    *)
(* split_block_2d assigns children only when len(new_children) > 1.        *)
(* A Fraction is a record [numerator, denominator] in lowest terms with a  *)
(* positive denominator, as fractions.Fraction keeps it.                   *)
(***************************************************************************)
EXTENDS Integers, Sequences, FiniteSets, TLC

VARIABLES root, prev, last, steps

vars == <<root, prev, last, steps>>

(***************************************************************************)
(* Bounds of the model.                                                    *)
(***************************************************************************)
MaxExtent == 2      \* the root covers [0..x_max] x [0..y_max], x_max, y_max <= MaxExtent
MaxSteps  == 3      \* number of operations applied to the tree

(***************************************************************************)
(* fractions.Fraction                                                      *)
(***************************************************************************)
Abs(n) == IF n < 0 THEN -n ELSE n

RECURSIVE gcd(_, _)
gcd(a, b) == IF b = 0 THEN a ELSE gcd(b, a % b)

\* Fraction(n, d), d # 0: reduced, sign carried by the numerator
Fraction(n, d) ==
    LET g == gcd(Abs(n), Abs(d))
        s == IF d < 0 THEN -1 ELSE 1
    IN  [numerator |-> (s * n) \div g, denominator |-> (s * d) \div g]

frac_add(a, b) ==
    LET g == gcd(a.denominator, b.denominator)
        l == (a.denominator \div g) * b.denominator
    IN  Fraction(a.numerator * (l \div a.denominator)
                   + b.numerator * (l \div b.denominator), l)

frac_neg(a) == [numerator |-> -a.numerator, denominator |-> a.denominator]

frac_sub(a, b) == frac_add(a, frac_neg(b))

frac_mul(a, b) ==
    LET g1 == gcd(Abs(a.numerator), b.denominator)
        g2 == gcd(Abs(b.numerator), a.denominator)
    IN  [numerator   |-> (a.numerator \div g1) * (b.numerator \div g2),
         denominator |-> (a.denominator \div g2) * (b.denominator \div g1)]

\* a / b, b # 0 (Python raises ZeroDivisionError otherwise)
frac_div(a, b) ==
    frac_mul(a, IF b.numerator > 0
                THEN [numerator |-> b.denominator, denominator |-> b.numerator]
                ELSE [numerator |-> -b.denominator, denominator |-> -b.numerator])

frac_lt(a, b) == a.numerator * b.denominator < b.numerator * a.denominator

frac_le(a, b) == a.numerator * b.denominator <= b.numerator * a.denominator

Zero == Fraction(0, 1)
One  == Fraction(1, 1)

(***************************************************************************)
(* class BlockNode2D                                                       *)
(***************************************************************************)
BlockNode2D(x0, x1, y0, y1, pr, v) ==
    [x_min |-> x0, x_max |-> x1, y_min |-> y0, y_max |-> y1,
     prob |-> pr, vantage |-> v, children |-> <<>>]

is_leaf(node) == node.children = <<>>

width(node) == node.x_max - node.x_min + 1

height(node) == node.y_max - node.y_min + 1

area(node) == width(node) * height(node)

(***************************************************************************)
(* Lumps-coded routines                                                    *)
(***************************************************************************)
RECURSIVE sum_tree_2d(_)
RECURSIVE sum_children(_)

\* the loop "for c in node.children: s += sum_tree_2d(c)"
sum_children(cs) ==
    IF cs = <<>> THEN Zero
    ELSE frac_add(sum_children(SubSeq(cs, 1, Len(cs) - 1)), sum_tree_2d(cs[Len(cs)]))

sum_tree_2d(node) ==
    IF is_leaf(node) THEN node.prob ELSE sum_children(node.children)

\* refinement that recomputes the bound from the mass alone, whatever the old bound
refine_vantage_recomputed(block) ==
    IF block.prob = Zero \/ block.prob = One THEN block
    ELSE LET inv == frac_div(One, block.prob)
             q   == inv.numerator \div inv.denominator
         IN  [block EXCEPT !.vantage =
                 IF inv.numerator % inv.denominator # 0 THEN q + 1 ELSE q]

\* refinement that rounds 1/prob down
refine_vantage_rounded_down(block) ==
    IF block.prob = Zero \/ block.prob = One THEN block
    ELSE IF frac_lt(block.prob, Fraction(1, block.vantage))
         THEN LET inv   == frac_div(One, block.prob)
                  new_v == inv.numerator \div inv.denominator
              IN  [block EXCEPT !.vantage =
                      IF new_v >= block.vantage + 1 THEN new_v ELSE block.vantage + 1]
         ELSE block

refine_vantage_if_needed_2d(block) ==
    IF block.prob = Zero \/ block.prob = One THEN block
    ELSE IF frac_lt(block.prob, Fraction(1, block.vantage))
         THEN LET inv   == frac_div(One, block.prob)
                  q     == inv.numerator \div inv.denominator
                  new_v == IF inv.numerator % inv.denominator # 0 THEN q + 1 ELSE q
              IN  [block EXCEPT !.vantage =
                      IF new_v >= block.vantage + 1 THEN new_v ELSE block.vantage + 1]
         ELSE block

set_probability_2d(block, new_prob) ==
    refine_vantage_if_needed_2d([block EXCEPT !.prob = new_prob])

\* scaling that does not descend below the children of the node it is given
RECURSIVE scale_leaf_children(_, _)
scale_leaf_children(cs, factor) ==
    IF cs = <<>> THEN <<>>
    ELSE <<IF is_leaf(Head(cs))
           THEN refine_vantage_if_needed_2d(
                    [Head(cs) EXCEPT !.prob = frac_mul(@, factor)])
           ELSE Head(cs)>> \o scale_leaf_children(Tail(cs), factor)

scale_tree_shallow(node, factor) ==
    IF is_leaf(node)
    THEN refine_vantage_if_needed_2d([node EXCEPT !.prob = frac_mul(node.prob, factor)])
    ELSE [node EXCEPT !.children = scale_leaf_children(node.children, factor)]

RECURSIVE scale_tree_2_2d(_, _)
RECURSIVE scale_children(_, _)

\* the loop "for c in node.children: scale_tree_2_2d(c, factor)"
scale_children(cs, factor) ==
    IF cs = <<>> THEN <<>>
    ELSE <<scale_tree_2_2d(Head(cs), factor)>> \o scale_children(Tail(cs), factor)

scale_tree_2_2d(node, factor) ==
    IF is_leaf(node)
    THEN refine_vantage_if_needed_2d([node EXCEPT !.prob = frac_mul(node.prob, factor)])
    ELSE [node EXCEPT !.children = scale_children(node.children, factor)]

scale_tree_2d(node, factor) ==
    IF is_leaf(node)
    THEN refine_vantage_if_needed_2d([node EXCEPT !.prob = frac_mul(node.prob, factor)])
    ELSE [node EXCEPT !.children = scale_children(node.children, factor)]

\* normalisation that only ever scales down
normalize_tree_only_above_one(node) ==
    LET total == sum_tree_2d(node)
    IN  IF frac_lt(One, total)
        THEN scale_tree_2_2d(node, frac_div(One, total))
        ELSE node

\* a normalization that scales only a total below 1
normalize_tree_only_below_one(node) ==
    LET total == sum_tree_2d(node)
    IN  IF frac_lt(Zero, total) /\ frac_lt(total, One)
        THEN scale_tree_2_2d(node, frac_div(One, total))
        ELSE node

\* a normalization that hands back the scaled tree as a single leaf
normalize_tree_flattening(node) ==
    LET total == sum_tree_2d(node)
    IN  IF frac_lt(Zero, total) /\ total # One
        THEN [scale_tree_2_2d(node, frac_div(One, total))
                 EXCEPT !.prob = One, !.children = <<>>]
        ELSE node

normalize_tree_2d(node) ==
    LET total == sum_tree_2d(node)
    IN  IF frac_lt(Zero, total) /\ total # One
        THEN scale_tree_2_2d(node, frac_div(One, total))
        ELSE node

RECURSIVE get_leaves_2d(_)
RECURSIVE get_leaves_children(_)

\* the children visited from the last to the first
RECURSIVE get_leaves_children_reversed(_)
get_leaves_children_reversed(cs) ==
    IF cs = <<>> THEN <<>>
    ELSE get_leaves_children_reversed(Tail(cs)) \o get_leaves_2d(Head(cs))

get_leaves_children(cs) ==
    IF cs = <<>> THEN <<>>
    ELSE get_leaves_2d(Head(cs)) \o get_leaves_children(Tail(cs))

get_leaves_2d(node) ==
    IF is_leaf(node) THEN <<node>> ELSE get_leaves_children(node.children)


(***************************************************************************)
(* Splitting / merging                                                     *)
(***************************************************************************)
\* children that start with a precision bound of 0
mk_child_zero_vantage(node, x0, x1, y0, y1, pr) ==
    IF x0 <= x1 /\ y0 <= y1
    THEN <<BlockNode2D(x0, x1, y0, y1, pr, 0)>>
    ELSE <<>>

\* mk_child returns a block or None: here a sequence of one block or of none
mk_child(node, x0, x1, y0, y1, pr) ==
    IF x0 <= x1 /\ y0 <= y1
    THEN <<BlockNode2D(x0, x1, y0, y1, pr, node.vantage)>>
    ELSE <<>>

\* the parent's mass divided by the number of children that survive
base_prob_by_count(node) ==
    frac_div(node.prob,
             Fraction((IF width(node) > 1 THEN 2 ELSE 1)
                        * (IF height(node) > 1 THEN 2 ELSE 1), 1))

\* the mass split_block_2d hands to each child
base_prob(node) == frac_div(node.prob, Fraction(4, 1))

\* quadrants cut at the midpoints rounded up
new_children_upper_mid(node) ==
    LET x_mid == (node.x_min + node.x_max + 1) \div 2
        y_mid == (node.y_min + node.y_max + 1) \div 2
        c1 == mk_child(node, node.x_min, x_mid, node.y_min, y_mid, base_prob(node))
        c2 == mk_child(node, x_mid + 1, node.x_max, node.y_min, y_mid, base_prob(node))
        c3 == mk_child(node, node.x_min, x_mid, y_mid + 1, node.y_max, base_prob(node))
        c4 == mk_child(node, x_mid + 1, node.x_max, y_mid + 1, node.y_max, base_prob(node))
    IN  c1 \o c2 \o c3 \o c4

\* quadrants whose right and top halves start at the midpoint itself
new_children_from_mid(node) ==
    LET x_mid == (node.x_min + node.x_max) \div 2
        y_mid == (node.y_min + node.y_max) \div 2
        c1 == mk_child(node, node.x_min, x_mid, node.y_min, y_mid, base_prob(node))
        c2 == mk_child(node, x_mid, node.x_max, node.y_min, y_mid, base_prob(node))
        c3 == mk_child(node, node.x_min, x_mid, y_mid, node.y_max, base_prob(node))
        c4 == mk_child(node, x_mid, node.x_max, y_mid, node.y_max, base_prob(node))
    IN  c1 \o c2 \o c3 \o c4

\* [cc for cc in (c1,c2,c3,c4) if cc is not None]
new_children(node) ==
    LET x_mid == (node.x_min + node.x_max) \div 2
        y_mid == (node.y_min + node.y_max) \div 2
        c1 == mk_child(node, node.x_min, x_mid, node.y_min, y_mid, base_prob(node))
        c2 == mk_child(node, x_mid + 1, node.x_max, node.y_min, y_mid, base_prob(node))
        c3 == mk_child(node, node.x_min, x_mid, y_mid + 1, node.y_max, base_prob(node))
        c4 == mk_child(node, x_mid + 1, node.x_max, y_mid + 1, node.y_max, base_prob(node))
    IN  c1 \o c2 \o c3 \o c4

\* a split that leaves the parent's mass on the parent
split_block_keeps_prob(node) ==
    IF ~is_leaf(node) THEN node
    ELSE IF area(node) <= 1 THEN node
    ELSE IF Len(new_children(node)) > 1
         THEN [node EXCEPT !.children = new_children(node)]
         ELSE node

\* a split without the guards on the area and on the number of children
split_block_unguarded(node) ==
    IF ~is_leaf(node) THEN node
    ELSE [node EXCEPT !.children = new_children(node), !.prob = Zero]

split_block_2d(node) ==
    IF ~is_leaf(node) THEN node
    ELSE IF area(node) <= 1 THEN node
    ELSE IF Len(new_children(node)) > 1
         THEN [node EXCEPT !.children = new_children(node), !.prob = Zero]
         ELSE node

\* a merge that adds up the children's own prob fields, without descending
RECURSIVE sum_own_probs(_)
sum_own_probs(cs) ==
    IF cs = <<>> THEN Zero ELSE frac_add(Head(cs).prob, sum_own_probs(Tail(cs)))

merge_block_shallow(node) ==
    IF is_leaf(node) THEN node
    ELSE [node EXCEPT !.prob = sum_own_probs(node.children), !.children = <<>>]

\* a merge without the guard on leaves
merge_block_unguarded(node) ==
    [node EXCEPT !.prob = sum_children(node.children), !.children = <<>>]

merge_block_2d(node) ==
    IF is_leaf(node) THEN node
    ELSE [node EXCEPT !.prob = sum_children(node.children), !.children = <<>>]

RECURSIVE adaptive_split_merge_2d(_, _, _)
RECURSIVE adaptive_children(_, _, _)

\* the loop "for c in node.children: adaptive_split_merge_2d(c, ...)"
adaptive_children(cs, split_thresh, merge_thresh) ==
    IF cs = <<>> THEN <<>>
    ELSE <<adaptive_split_merge_2d(Head(cs), split_thresh, merge_thresh)>>
         \o adaptive_children(Tail(cs), split_thresh, merge_thresh)

\* a pass that splits a leaf only when its mass is above the threshold
adaptive_split_above(node, split_thresh, merge_thresh) ==
    IF is_leaf(node)
    THEN IF area(node) > 1 /\ frac_lt(split_thresh, node.prob)
         THEN split_block_2d(node)
         ELSE node
    ELSE LET rec == [node EXCEPT !.children =
                        adaptive_children(node.children, split_thresh, merge_thresh)]
             total == sum_children(rec.children)
         IN  IF frac_lt(total, merge_thresh) THEN merge_block_2d(rec) ELSE rec

\* a pass that merges when the children's total is at or below the threshold
adaptive_merge_at_or_below(node, split_thresh, merge_thresh) ==
    IF is_leaf(node)
    THEN IF area(node) > 1 /\ frac_le(split_thresh, node.prob)
         THEN split_block_2d(node)
         ELSE node
    ELSE LET rec == [node EXCEPT !.children =
                        adaptive_children(node.children, split_thresh, merge_thresh)]
             total == sum_children(rec.children)
         IN  IF frac_le(total, merge_thresh) THEN merge_block_2d(rec) ELSE rec

adaptive_split_merge_2d(node, split_thresh, merge_thresh) ==
    IF is_leaf(node)
    THEN IF area(node) > 1 /\ frac_le(split_thresh, node.prob)
         THEN split_block_2d(node)
         ELSE node
    ELSE LET rec == [node EXCEPT !.children =
                        adaptive_children(node.children, split_thresh, merge_thresh)]
             total == sum_children(rec.children)
         IN  IF frac_lt(total, merge_thresh) THEN merge_block_2d(rec) ELSE rec

(***************************************************************************)
(* Neighbors & flow                                                        *)
(***************************************************************************)
\* adjacency across vertical edges only
is_neighbor_left_or_right(a, b) ==
    LET horiz_touch == (a.x_max + 1 = b.x_min \/ b.x_max + 1 = a.x_min)
        y_overlap   == ~(a.y_max < b.y_min \/ b.y_max < a.y_min)
    IN  IF horiz_touch /\ y_overlap THEN TRUE ELSE FALSE

\* adjacency that looks for b on the right of and above a only
is_neighbor_right_or_above(a, b) ==
    LET horiz_touch == (a.x_max + 1 = b.x_min)
        y_overlap   == ~(a.y_max < b.y_min \/ b.y_max < a.y_min)
        vert_touch  == (a.y_max + 1 = b.y_min)
        x_overlap   == ~(a.x_max < b.x_min \/ b.x_max < a.x_min)
    IN  IF horiz_touch /\ y_overlap THEN TRUE
        ELSE IF vert_touch /\ x_overlap THEN TRUE
        ELSE FALSE

is_neighbor_2d(a, b) ==
    LET horiz_touch == (a.x_max + 1 = b.x_min \/ b.x_max + 1 = a.x_min)
        y_overlap   == ~(a.y_max < b.y_min \/ b.y_max < a.y_min)
        vert_touch  == (a.y_max + 1 = b.y_min \/ b.y_max + 1 = a.y_min)
        x_overlap   == ~(a.x_max < b.x_min \/ b.x_max < a.x_min)
    IN  IF horiz_touch /\ y_overlap THEN TRUE
        ELSE IF vert_touch /\ x_overlap THEN TRUE
        ELSE FALSE

\* the inner loop recording each adjacent pair at the lower index only
RECURSIVE neighbor_loop_one_way(_, _, _, _)
neighbor_loop_one_way(leaves, i, j, neighbor_map) ==
    IF j > Len(neighbor_map) THEN neighbor_map
    ELSE neighbor_loop_one_way(leaves, i, j + 1,
            IF is_neighbor_2d(leaves[i], leaves[j])
            THEN [neighbor_map EXCEPT ![i] = Append(@, j)]
            ELSE neighbor_map)

\* the inner loop "for j in range(i+1, n)" of find_neighbors_2d at j, indices from
\* 1; neighbor_map has n entries
RECURSIVE neighbor_loop(_, _, _, _)
neighbor_loop(leaves, i, j, neighbor_map) ==
    IF j > Len(neighbor_map) THEN neighbor_map
    ELSE neighbor_loop(leaves, i, j + 1,
            IF is_neighbor_2d(leaves[i], leaves[j])
            THEN [neighbor_map EXCEPT ![i] = Append(@, j), ![j] = Append(@, i)]
            ELSE neighbor_map)

\* the outer loop "for i in range(n)" of find_neighbors_2d at i
RECURSIVE neighbor_rows(_, _, _)
neighbor_rows(leaves, i, neighbor_map) ==
    IF i > Len(neighbor_map) THEN neighbor_map
    ELSE neighbor_rows(leaves, i + 1, neighbor_loop(leaves, i, i + 1, neighbor_map))

\* a list of n copies of x
RECURSIVE repeat(_, _)
repeat(x, n) == IF n = 0 THEN <<>> ELSE <<x>> \o repeat(x, n - 1)

find_neighbors_2d(leaves) ==
    neighbor_rows(leaves, 1, repeat(<<>>, Len(leaves)))

\* "for j in nbrs: new_probs[j] += portion"
RECURSIVE add_portion(_, _, _)
add_portion(new_probs, nbrs, portion) ==
    IF nbrs = <<>> THEN new_probs
    ELSE add_portion([new_probs EXCEPT ![Head(nbrs)] = frac_add(@, portion)],
                     Tail(nbrs), portion)

\* every neighbour is handed the whole outflow
flow_portion_undivided(outflow, nbrs) == outflow

\* outflow / len(nbrs)
flow_portion(outflow, nbrs) == frac_div(outflow, Fraction(Len(nbrs), 1))

\* the outflow of a leaf without neighbours is dropped whatever the boundary
flow_reflect_never(outflow, boundary) == Zero

\* the outflow of a leaf without neighbours is returned whatever the boundary
flow_reflect_always(outflow, boundary) == outflow

\* what a leaf without neighbours adds back to itself
flow_reflect(outflow, boundary) == IF boundary = "closed" THEN outflow ELSE Zero

\* a flow that updates the masses in place, leaf after leaf: each leaf's outflow is
\* taken from its mass as the leaves before it have left it
RECURSIVE flow_in_place(_, _, _, _, _)
flow_in_place(probs, neighbor_map, alpha, boundary, i) ==
    IF i > Len(probs) THEN probs
    ELSE LET outflow == frac_mul(probs[i], alpha)
             nbrs    == neighbor_map[i]
             kept    == [probs EXCEPT ![i] = frac_sub(@, outflow)]
         IN  flow_in_place(
                 IF nbrs # <<>>
                 THEN add_portion(kept, nbrs, frac_div(outflow, Fraction(Len(nbrs), 1)))
                 ELSE IF boundary = "closed" THEN probs ELSE kept,
                 neighbor_map, alpha, boundary, i + 1)

flow_loop_sequential(old_probs, neighbor_map, alpha, boundary, i, new_probs) ==
    flow_in_place(old_probs, neighbor_map, alpha, boundary, i)

\* the loop "for i, p_i in enumerate(old_probs)", at index i
RECURSIVE flow_loop(_, _, _, _, _, _)
flow_loop(old_probs, neighbor_map, alpha, boundary, i, new_probs) ==
    IF i > Len(new_probs) THEN new_probs
    ELSE LET p_i       == old_probs[i]
             outflow   == frac_mul(p_i, alpha)
             remainder == frac_sub(p_i, outflow)
             np1       == [new_probs EXCEPT ![i] = frac_add(@, remainder)]
             nbrs      == neighbor_map[i]
             np2       == IF nbrs # <<>>
                          THEN add_portion(np1, nbrs, flow_portion(outflow, nbrs))
                          ELSE [np1 EXCEPT ![i] =
                                   frac_add(@, flow_reflect(outflow, boundary))]
         IN  flow_loop(old_probs, neighbor_map, alpha, boundary, i + 1, np2)

\* [leaf.prob for leaf in leaves]
RECURSIVE probs_of(_)
probs_of(leaves) ==
    IF leaves = <<>> THEN <<>> ELSE <<Head(leaves).prob>> \o probs_of(Tail(leaves))

\* "for i, block in enumerate(leaves): set_probability_2d(block, new_probs[i])":
\* the leaves of node, in get_leaves_2d order, take the masses new_probs
RECURSIVE assign_leaves(_, _)
RECURSIVE assign_children(_, _)

assign_children(cs, new_probs) ==
    IF cs = <<>> THEN <<>>
    ELSE LET n == Len(get_leaves_2d(Head(cs)))
         IN  <<assign_leaves(Head(cs), SubSeq(new_probs, 1, n))>>
             \o assign_children(Tail(cs), SubSeq(new_probs, n + 1, Len(new_probs)))

assign_leaves(node, new_probs) ==
    IF is_leaf(node) THEN set_probability_2d(node, new_probs[1])
    ELSE [node EXCEPT !.children = assign_children(node.children, new_probs)]

flow_step_2d(node, alpha, boundary) ==
    LET leaves       == get_leaves_2d(node)
        neighbor_map == find_neighbors_2d(leaves)
        old_probs    == probs_of(leaves)
        new_probs    == flow_loop(old_probs, neighbor_map, alpha, boundary, 1,
                                  repeat(Zero, Len(leaves)))
    IN  assign_leaves(node, new_probs)

\* the body of main's loop: flow, normalize, adaptive split/merge
tick(node, alpha, boundary, split_thresh, merge_thresh) ==
    adaptive_split_merge_2d(normalize_tree_2d(flow_step_2d(node, alpha, boundary)),
                            split_thresh, merge_thresh)

(***************************************************************************)
(* Nodes of a tree are addressed by their path from the root: the sequence *)
(* of child positions.                                                     *)
(***************************************************************************)
RECURSIVE Paths(_)
Paths(node) ==
    {<<>>} \cup UNION {{<<i>> \o p : p \in Paths(node.children[i])} :
                          i \in 1..Len(node.children)}

RECURSIVE NodeAt(_, _)
NodeAt(node, path) ==
    IF path = <<>> THEN node ELSE NodeAt(node.children[Head(path)], Tail(path))

RECURSIVE ReplaceAt(_, _, _)
ReplaceAt(node, path, new) ==
    IF path = <<>> THEN new
    ELSE [node EXCEPT !.children[Head(path)] = ReplaceAt(@, Tail(path), new)]

(***************************************************************************)
(* Inputs                                                                  *)
(***************************************************************************)
Alphas       == {Fraction(0, 1), Fraction(1, 10), Fraction(1, 1)}
Boundaries   == {"open", "closed"}
Factors      == {Fraction(3, 10), Fraction(2, 1)}
\* <<split_thresh, merge_thresh>>: the defaults of adaptive_split_merge_2d, a
\* pair that the masses of a freshly split tree meet exactly, and a pair whose
\* merge threshold lies above its split threshold
Thresholds   == {<<Fraction(1, 5), Fraction(1, 200)>>, <<Fraction(1, 4), Fraction(1, 4)>>,
                 <<Fraction(1, 5), Fraction(1, 2)>>}
InitProbs    == {Fraction(1, 1)}
InitVantages == {3}

\* main's arguments to flow_step_2d and adaptive_split_merge_2d
MainAlpha       == Fraction(1, 10)
MainSplitThresh == Fraction(1, 5)
MainMergeThresh == Fraction(1, 300)

NoArg == [op |-> "init", path |-> <<>>, alpha |-> Zero, boundary |-> "closed",
          factor |-> One, split_thresh |-> Zero, merge_thresh |-> Zero]

Init ==
    /\ \E x1 \in 0..MaxExtent, y1 \in 0..MaxExtent, pr \in InitProbs, v \in InitVantages :
          root = BlockNode2D(0, x1, 0, y1, pr, v)
    /\ prev = root
    /\ last = NoArg
    /\ steps = 0

\* one call on the tree: the tree becomes new, and the call is recorded
Do(new, call) ==
    /\ steps < MaxSteps
    /\ root' = new
    /\ prev' = root
    /\ last' = call
    /\ steps' = steps + 1

Flow ==
    \E alpha \in Alphas, boundary \in Boundaries :
        Do(flow_step_2d(root, alpha, boundary),
           [NoArg EXCEPT !.op = "flow", !.alpha = alpha, !.boundary = boundary])

Normalize ==
    Do(normalize_tree_2d(root), [NoArg EXCEPT !.op = "normalize"])

Scale ==
    \E factor \in Factors :
        Do(scale_tree_2d(root, factor), [NoArg EXCEPT !.op = "scale", !.factor = factor])

Split ==
    \E path \in Paths(root) :
        Do(ReplaceAt(root, path, split_block_2d(NodeAt(root, path))),
           [NoArg EXCEPT !.op = "split", !.path = path])

Merge ==
    \E path \in Paths(root) :
        Do(ReplaceAt(root, path, merge_block_2d(NodeAt(root, path))),
           [NoArg EXCEPT !.op = "merge", !.path = path])

Adaptive ==
    \E th \in Thresholds :
        Do(adaptive_split_merge_2d(root, th[1], th[2]),
           [NoArg EXCEPT !.op = "adaptive", !.split_thresh = th[1],
                         !.merge_thresh = th[2]])

Tick ==
    \E boundary \in Boundaries :
        Do(tick(root, MainAlpha, boundary, MainSplitThresh, MainMergeThresh),
           [NoArg EXCEPT !.op = "tick", !.alpha = MainAlpha, !.boundary = boundary,
                         !.split_thresh = MainSplitThresh,
                         !.merge_thresh = MainMergeThresh])

Next == Flow \/ Normalize \/ Scale \/ Split \/ Merge \/ Adaptive \/ Tick

Spec == Init /\ [][Next]_vars

\* the calls other than scale_tree_2d: from a root of mass 1 the tree is changed
\* only by flow, normalize, split, merge and the adaptive pass
NextNoScale == Flow \/ Normalize \/ Split \/ Merge \/ Adaptive \/ Tick

SpecNoScale == Init /\ [][NextNoScale]_vars

\* Callers that pass any integers as the extents of the domain and any fractions
\* as the thresholds: BlockNode2D.__init__ and adaptive_split_merge_2d take their
\* arguments as they come.
AnyThresholds == Thresholds \cup {<<Fraction(-1, 5), Fraction(1, 200)>>,
                                  <<Fraction(1, 5), Fraction(3, 2)>>}

InitAnyExtent ==
    /\ \E x1 \in -1..MaxExtent, y1 \in -1..MaxExtent, pr \in InitProbs, v \in InitVantages :
          root = BlockNode2D(0, x1, 0, y1, pr, v)
    /\ prev = root
    /\ last = NoArg
    /\ steps = 0

AdaptiveAnyThreshold ==
    \E th \in AnyThresholds :
        Do(adaptive_split_merge_2d(root, th[1], th[2]),
           [NoArg EXCEPT !.op = "adaptive", !.split_thresh = th[1],
                         !.merge_thresh = th[2]])

NextAnyInput == Split \/ Scale \/ AdaptiveAnyThreshold

SpecAnyInput == InitAnyExtent /\ [][NextAnyInput]_vars


(***************************************************************************)
(* Properties.  prev is the tree before the last call, last the call.      *)
(***************************************************************************)
\* the masses of a sequence of blocks, added from the left
RECURSIVE SumProbs(_)
SumProbs(blocks) ==
    IF blocks = <<>> THEN Zero
    ELSE frac_add(Head(blocks).prob, SumProbs(Tail(blocks)))

\* the total mass of a tree, taken over its leaves
LeafMass(node) == SumProbs(get_leaves_2d(node))

\* the node the last split or merge was applied to, before and after the call
Target     == NodeAt(root, last.path)
PrevTarget == NodeAt(prev, last.path)

\* the last call was a split that turned a leaf into an internal node
DidSplit == last.op = "split" /\ is_leaf(PrevTarget) /\ ~is_leaf(Target)

\* the last call was a merge of an internal node
DidMerge == last.op = "merge" /\ ~is_leaf(PrevTarget)

\* C1: a tick (flow, normalize, adaptive split/merge) with a closed boundary on a
\* tree of total mass 1 leaves the total mass as it was before the tick.
C1_ClosedTickConservesMass ==
    (last.op = "tick" /\ last.boundary = "closed" /\ LeafMass(prev) = One)
        => LeafMass(root) = LeafMass(prev)

\* C2: one flow step with a closed boundary leaves the sum of all leaf masses
\* exactly as it was before the step.
C2_ClosedFlowConservesMass ==
    (last.op = "flow" /\ last.boundary = "closed")
        => LeafMass(root) = LeafMass(prev)

\* C2 witness: a closed flow step on a tree of several leaves that moved mass
C2_Witness ==
    /\ last.op = "flow" /\ last.boundary = "closed"
    /\ Len(get_leaves_2d(prev)) >= 2
    /\ \E i \in 1..Len(get_leaves_2d(prev)) :
          get_leaves_2d(root)[i].prob # get_leaves_2d(prev)[i].prob

\* C3: one flow step with an open boundary yields a total mass that is at most the
\* total mass before the step.
C3_OpenFlowNeverGainsMass ==
    (last.op = "flow" /\ last.boundary = "open")
        => frac_le(LeafMass(root), LeafMass(prev))

\* C3 witness: an open flow step that lost mass
C3_Witness ==
    /\ last.op = "flow" /\ last.boundary = "open"
    /\ frac_lt(LeafMass(root), LeafMass(prev))

\* C4: when split_block_2d turns a leaf into an internal node, the masses of the new
\* children add up to the mass the leaf held before the split, whatever its shape.
C4_SplitConservesMass ==
    DidSplit => SumProbs(Target.children) = PrevTarget.prob

\* C5: split, merge, adaptive split/merge, normalize and closed-boundary flow never
\* leave the total mass lower than before the call.
C5_OnlyOpenFlowLosesMass ==
    (\/ last.op \in {"split", "merge", "adaptive", "normalize"}
     \/ (last.op = "flow" /\ last.boundary = "closed"))
        => frac_le(LeafMass(prev), LeafMass(root))

C7_MergeKeepsSubtreeMass ==
    DidMerge =>
        /\ is_leaf(Target)
        /\ Target.prob = LeafMass(PrevTarget)
        /\ LeafMass(root) = LeafMass(prev)

\* C7 witness: the merged node had an internal child, and positive mass below it
C7_Witness ==
    /\ DidMerge
    /\ \E i \in 1..Len(PrevTarget.children) : ~is_leaf(PrevTarget.children[i])
    /\ frac_lt(Zero, LeafMass(PrevTarget))

\* C8: normalize_tree_2d is idempotent: after one normalisation a second one leaves
\* every mass, every precision bound and the structure as they are.
C8_NormalizeIdempotent ==
    last.op = "normalize" => normalize_tree_2d(root) = root

\* C8 witness: a normalisation that changed a tree of several leaves
C8_Witness ==
    last.op = "normalize" /\ root # prev /\ Len(get_leaves_2d(root)) >= 2

\* C9: normalize_tree_2d multiplies every leaf mass by 1/total when the total is
\* positive and not 1, and the total is then exactly 1; when the total is 0 or 1
\* it changes nothing.
C9_NormalizeScalesToOne ==
    last.op = "normalize" =>
        LET total == LeafMass(prev)
            old   == get_leaves_2d(prev)
            new   == get_leaves_2d(root)
        IN  IF frac_lt(Zero, total) /\ total # One
            THEN /\ Len(new) = Len(old)
                 /\ \A i \in 1..Len(old) :
                       new[i].prob = frac_div(old[i].prob, total)
                 /\ LeafMass(root) = One
            ELSE root = prev

\* C9 witness: a tree of several leaves with a total other than 0 and 1 was normalised
C9_Witness ==
    /\ last.op = "normalize"
    /\ frac_lt(Zero, LeafMass(prev)) /\ LeafMass(prev) # One
    /\ Len(get_leaves_2d(prev)) >= 2

\* C10: the precision bound (vantage) of a node never decreases from one state to
\* the next while the node is in the tree.
C10_VantageNeverDecreases ==
    \A p \in Paths(prev) \cap Paths(root) :
        NodeAt(root, p).vantage >= NodeAt(prev, p).vantage

\* C10 witness: a call raised the precision bound of a node
C10_Witness ==
    \E p \in Paths(prev) \cap Paths(root) :
        NodeAt(root, p).vantage > NodeAt(prev, p).vantage


\* the tree is the initial one or differs from the tree before the last call.
\* Every reachable tree is the tree of such a state (the first state of a behaviour
\* in which it stands), so what is said of a tree alone is examined in these states.
TreeIsNew == steps = 0 \/ root # prev

\* the least integer n with n * p >= 1, for a fraction p > 0
CeilInverse(p) == (p.denominator + p.numerator - 1) \div p.numerator

\* the bound v2 is what refinement makes of the bound v of a block of mass p
RefinedAsStated(p, v, v2) ==
    IF frac_lt(Zero, p) /\ frac_lt(p, One) /\ frac_lt(p, Fraction(1, v))
    THEN /\ v2 = (IF CeilInverse(p) >= v + 1 THEN CeilInverse(p) ELSE v + 1)
         /\ v2 > v
         /\ frac_le(Fraction(1, v2), p)
    ELSE v2 = v

\* C11: refinement of a block of mass p and bound v: when 0 < p < 1 and p < 1/v the
\* new bound is max(ceil(1/p), v+1), above v and with p >= 1/new bound; when p is 0
\* or 1 or p >= 1/v the bound stays; the mass is never changed by refinement.
C11_RefineRaisesBoundToCeilInverse ==
    /\ last.op \in {"flow", "scale"} =>
           LET olds == get_leaves_2d(prev)
               news == get_leaves_2d(root)
           IN  \A i \in 1..Len(olds) :
                   /\ RefinedAsStated(news[i].prob, olds[i].vantage, news[i].vantage)
                   /\ last.op = "scale" =>
                          news[i].prob = frac_mul(olds[i].prob, last.factor)
    /\ TreeIsNew =>
           \A p \in Paths(root) :
               LET block == NodeAt(root, p)
                   after == refine_vantage_if_needed_2d(block)
               IN  /\ RefinedAsStated(block.prob, block.vantage, after.vantage)
                   /\ after.prob = block.prob

\* C11 witness: a scaling left a leaf with a mass whose inverse is no integer and
\* raised the leaf's bound by more than one
C11_Witness ==
    /\ last.op = "scale"
    /\ \E i \in 1..Len(get_leaves_2d(prev)) :
          /\ get_leaves_2d(root)[i].prob.numerator > 1
          /\ get_leaves_2d(root)[i].vantage > get_leaves_2d(prev)[i].vantage + 1

\* C12: after flow, scale, normalize, split and merge every leaf whose mass p has
\* 0 < p < 1 has p >= 1/vantage: refinement follows every change of a leaf's mass.
C12_EveryLeafRefinedAfterMassChange ==
    last.op \in {"flow", "scale", "normalize", "split", "merge"} =>
        \A i \in 1..Len(get_leaves_2d(root)) :
            LET leaf == get_leaves_2d(root)[i]
            IN  (frac_lt(Zero, leaf.prob) /\ frac_lt(leaf.prob, One))
                    => frac_le(Fraction(1, leaf.vantage), leaf.prob)

\* the sum of f[j] over the indices j of the set S
RECURSIVE SumOver(_, _)
SumOver(S, f) ==
    IF S = {} THEN Zero
    ELSE LET j == CHOOSE k \in S : TRUE
         IN  frac_add(f[j], SumOver(S \ {j}, f))

\* the leaves other than i that share an edge with leaf i
NeighboursOf(leaves, i) ==
    {j \in 1..Len(leaves) : j # i /\ is_neighbor_2d(leaves[i], leaves[j])}

\* what each leaf hands to each of its neighbours in a flow step
Given(leaves, alpha) ==
    [j \in 1..Len(leaves) |->
        IF NeighboursOf(leaves, j) = {} THEN Zero
        ELSE frac_div(frac_mul(leaves[j].prob, alpha),
                      Fraction(Cardinality(NeighboursOf(leaves, j)), 1))]

\* the mass of leaf i after a flow step, from the masses before the step alone
FlowResult(leaves, given, alpha, boundary, i) ==
    LET kept  == frac_mul(leaves[i].prob, frac_sub(One, alpha))
        back  == IF NeighboursOf(leaves, i) = {} /\ boundary = "closed"
                 THEN frac_mul(leaves[i].prob, alpha) ELSE Zero
    IN  frac_add(frac_add(kept, back), SumOver(NeighboursOf(leaves, i), given))

\* C13: a flow step updates all leaves at once: leaf i ends with
\* old[i]*(1-alpha) plus old[j]*alpha/deg(j) for every neighbour j (plus old[i]*alpha
\* when i has no neighbour and the boundary is closed), old being the masses before
\* the step; two adjacent leaves of equal mass that are each other's only neighbour
\* keep their masses.
C13_FlowUpdatesAllLeavesAtOnce ==
    last.op = "flow" =>
        \A old \in {get_leaves_2d(prev)} : \A new \in {get_leaves_2d(root)} :
        \A given \in {Given(old, last.alpha)} :
            /\ Len(new) = Len(old)
            /\ \A i \in 1..Len(old) :
                  new[i].prob = FlowResult(old, given, last.alpha, last.boundary, i)
            /\ (Len(old) = 2 /\ old[1].prob = old[2].prob) =>
                  (new[1].prob = old[1].prob /\ new[2].prob = old[2].prob)

\* C13 witness: a flow step with 0 < alpha < 1 over leaves of different masses, in
\* which a leaf after the first gave mass to and took mass from its neighbours
C13_Witness ==
    /\ last.op = "flow" /\ last.alpha = Fraction(1, 10)
    /\ \E i, j \in 1..Len(get_leaves_2d(prev)) :
          /\ i < j /\ is_neighbor_2d(get_leaves_2d(prev)[i], get_leaves_2d(prev)[j])
          /\ get_leaves_2d(prev)[i].prob # get_leaves_2d(prev)[j].prob
          /\ frac_lt(Zero, get_leaves_2d(prev)[i].prob)
          /\ get_leaves_2d(root)[j].prob # get_leaves_2d(prev)[j].prob


\* the blocks of a tree, internal nodes and leaves
RECURSIVE Blocks(_)
Blocks(node) ==
    {node} \cup UNION {Blocks(node.children[i]) : i \in 1..Len(node.children)}

\* the rectangle of a block
Rect(block) == <<block.x_min, block.x_max, block.y_min, block.y_max>>

\* the integer cells of a block's rectangle
Cells(block) == (block.x_min..block.x_max) \X (block.y_min..block.y_max)

\* the cell lies in the block's rectangle
InRect(cell, block) ==
    /\ block.x_min <= cell[1] /\ cell[1] <= block.x_max
    /\ block.y_min <= cell[2] /\ cell[2] <= block.y_max

\* the blocks of the sequence that hold the cell
Holding(blocks, cell) == {i \in 1..Len(blocks) : InRect(cell, blocks[i])}

\* C14: the children of every internal node partition the node's rectangle: every
\* cell of the parent lies in exactly one child and no child reaches outside the
\* parent; so the leaves of the tree partition the root's domain.
C14_ChildrenPartitionParent ==
    TreeIsNew =>
       /\ \A p \in Paths(root) :
             LET node == NodeAt(root, p)
             IN  ~is_leaf(node) =>
                    /\ \A cell \in Cells(node) :
                          Cardinality(Holding(node.children, cell)) = 1
                    /\ \A i \in 1..Len(node.children) :
                          \A cell \in Cells(node.children[i]) : InRect(cell, node)
       /\ \A cell \in Cells(root) : Cardinality(Holding(get_leaves_2d(root), cell)) = 1

\* C14 witness: a tree with a node of 4 children and, below the root, a node of 2
C14_Witness ==
    /\ \E p \in Paths(root) : Len(NodeAt(root, p).children) = 4
    /\ \E p \in Paths(root) : p # <<>> /\ Len(NodeAt(root, p).children) = 2

\* C15: every internal node holds mass exactly 0.
C15_InternalNodesHoldNoMass ==
    \A p \in Paths(root) :
        ~is_leaf(NodeAt(root, p)) => NodeAt(root, p).prob = Zero

\* C15 witness: a scaling of a tree of positive mass with an internal node below the
\* root
C15_Witness ==
    /\ last.op = "scale"
    /\ frac_lt(Zero, LeafMass(root))
    /\ \E p \in Paths(root) : p # <<>> /\ ~is_leaf(NodeAt(root, p))

\* C16: every node is a leaf or has between 2 and 4 children; every node has
\* width >= 1 and height >= 1; no call turns a leaf of area 1 into an internal node.
C16_NodesAreLeavesOrProperlySplit ==
    /\ TreeIsNew =>
          \A p \in Paths(root) :
             LET node == NodeAt(root, p)
             IN  /\ is_leaf(node) \/ Len(node.children) \in 2..4
                 /\ width(node) >= 1 /\ height(node) >= 1
    /\ \A p \in Paths(prev) \cap Paths(root) :
          (is_leaf(NodeAt(prev, p)) /\ area(NodeAt(prev, p)) = 1)
              => is_leaf(NodeAt(root, p))

\* C16 witness: split_block_2d was called on a leaf of area 1 below the root
C16_Witness ==
    /\ last.op = "split" /\ last.path # <<>>
    /\ is_leaf(PrevTarget) /\ area(PrevTarget) = 1


\* C17: is_neighbor_2d is symmetric: for all blocks a and b of a tree,
\* is_neighbor_2d(a, b) equals is_neighbor_2d(b, a).
C17_NeighborIsSymmetric ==
    TreeIsNew =>
       \A a, b \in Blocks(root) : is_neighbor_2d(a, b) = is_neighbor_2d(b, a)

\* C17 witness: a tree with two adjacent blocks at different depths and two distinct
\* blocks that are not adjacent
C17_Witness ==
    /\ \E p, q \in Paths(root) :
          Len(p) # Len(q) /\ is_neighbor_2d(NodeAt(root, p), NodeAt(root, q))
    /\ \E p, q \in Paths(root) :
          p # q /\ ~is_neighbor_2d(NodeAt(root, p), NodeAt(root, q))

\* the x-range and the y-range of a block, as sets
XRange(block) == block.x_min..block.x_max
YRange(block) == block.y_min..block.y_max

\* a and b abut horizontally with overlapping y-ranges
AbutHorizontally(a, b) ==
    /\ a.x_max + 1 = b.x_min \/ b.x_max + 1 = a.x_min
    /\ YRange(a) \cap YRange(b) # {}

\* a and b abut vertically with overlapping x-ranges
AbutVertically(a, b) ==
    /\ a.y_max + 1 = b.y_min \/ b.y_max + 1 = a.y_min
    /\ XRange(a) \cap XRange(b) # {}

\* a cell of a and a cell of b share a side
ShareEdge(a, b) ==
    \E c \in Cells(a) :
        \E d \in {<<c[1] - 1, c[2]>>, <<c[1] + 1, c[2]>>, <<c[1], c[2] - 1>>, <<c[1], c[2] + 1>>} :
            InRect(d, b)

\* a cell of a and a cell of b touch diagonally, and no two cells share a side
TouchAtCornerOnly(a, b) ==
    /\ \E c \in Cells(a) :
          \E d \in {<<c[1] - 1, c[2] - 1>>, <<c[1] - 1, c[2] + 1>>,
                    <<c[1] + 1, c[2] - 1>>, <<c[1] + 1, c[2] + 1>>} :
              InRect(d, b)
    /\ ~ShareEdge(a, b)

\* the positions of entry at which j stands
Occurrences(entry, j) == {k \in 1..Len(entry) : entry[k] = j}

\* C18: for the ordered leaf list of a reachable tree, index j appears in entry i of
\* find_neighbors_2d exactly when i # j and the leaves i and j abut horizontally
\* with overlapping y-ranges or vertically with overlapping x-ranges (that is, two
\* of their cells share a side); the map is symmetric, holds no index twice in one
\* entry, never lists a leaf as its own neighbour, and leaves that touch only at a
\* corner are not neighbours.
C18_NeighborMapIsEdgeAdjacency ==
    TreeIsNew =>
    \A leaves \in {get_leaves_2d(root)} : \A neighbor_map \in {find_neighbors_2d(leaves)} :
        /\ Len(neighbor_map) = Len(leaves)
        /\ \A i \in 1..Len(leaves) : Occurrences(neighbor_map[i], i) = {}
        /\ \A i \in 1..Len(leaves) : \A j \in (i + 1)..Len(leaves) :
              \A there \in {Cardinality(Occurrences(neighbor_map[i], j))} :
              \A back \in {Cardinality(Occurrences(neighbor_map[j], i))} :
                  /\ there = back /\ there <= 1
                  /\ there = 1 <=> (AbutHorizontally(leaves[i], leaves[j])
                                    \/ AbutVertically(leaves[i], leaves[j]))
                  /\ there = 1 <=> ShareEdge(leaves[i], leaves[j])
                  /\ there = 0 \/ ~TouchAtCornerOnly(leaves[i], leaves[j])
        /\ \A i \in 1..Len(leaves) :
              \A k \in 1..Len(neighbor_map[i]) : neighbor_map[i][k] \in 1..Len(leaves)

\* C18 witness: a flow step over a tree in which some leaf has three neighbours and
\* two leaves touch only at a corner
C18_Witness ==
    LET leaves == get_leaves_2d(root)
        neighbor_map == find_neighbors_2d(leaves)
    IN  /\ last.op = "flow"
        /\ \E i \in 1..Len(leaves) : Len(neighbor_map[i]) >= 3
        /\ \E i, j \in 1..Len(leaves) : TouchAtCornerOnly(leaves[i], leaves[j])


\* (a1, a2) is lexicographically less than or equal to (b1, b2)
LexLe(a1, a2, b1, b2) == a1 < b1 \/ (a1 = b1 /\ a2 <= b2)

\* C19: the sequence returned by get_leaves_2d is in ascending order of
\* (x_min, y_min): for leaves at positions i < j, (x_min, y_min) of leaf i is
\* lexicographically less than or equal to that of leaf j.
C19_LeavesAscendingByXminYmin ==
    LET leaves == get_leaves_2d(root)
    IN  \A i, j \in 1..Len(leaves) :
            i < j => LexLe(leaves[i].x_min, leaves[i].y_min,
                           leaves[j].x_min, leaves[j].y_min)

\* the paths of the leaves of a tree
LeafPaths(node) == {p \in Paths(node) : is_leaf(NodeAt(node, p))}

\* path p leaves the common prefix of p and q by an earlier child than q
RECURSIVE PathBefore(_, _)
PathBefore(p, q) ==
    IF p = <<>> \/ q = <<>> THEN FALSE
    ELSE IF Head(p) # Head(q) THEN Head(p) < Head(q)
    ELSE PathBefore(Tail(p), Tail(q))

Passed(block) == adaptive_split_merge_2d(block, last.split_thresh, last.merge_thresh)

\* the result of an adaptive pass with split threshold 1/5 on a 4x4 leaf of mass 1
FourByFourPassed ==
    adaptive_split_merge_2d(BlockNode2D(0, 3, 0, 3, One, 100),
                            Fraction(1, 5), Fraction(1, 200))

\* the block meets the split condition of the last adaptive pass
MeetsSplit(block) == area(block) > 1 /\ frac_le(last.split_thresh, block.prob)

\* C21: in one adaptive pass a node that is a leaf on entry is split exactly when
\* area > 1 and mass >= split_threshold, equality included; the children made by
\* that split are leaves of a quarter of the mass each, not examined again in the
\* same pass; a leaf that is not split is left as it was.  A single-leaf 4x4 root of
\* mass 1 with split_threshold 1/5 ends the pass with four 2x2 leaves of mass 1/4.
C21_AdaptiveSplitsLeafAtThresholdOnce ==
    /\ last.op = "adaptive" =>
          \A block \in Blocks(prev) :
              is_leaf(block) =>
                 LET passed == Passed(block)
                 IN  /\ ~is_leaf(passed) <=> MeetsSplit(block)
                     /\ MeetsSplit(block) =>
                           \A i \in 1..Len(passed.children) :
                              /\ is_leaf(passed.children[i])
                              /\ passed.children[i].prob
                                    = frac_div(block.prob, Fraction(4, 1))
                     /\ ~MeetsSplit(block) => passed = block
    /\ (last.op = "adaptive" /\ is_leaf(prev)) => root = Passed(prev)
    /\ LET out == FourByFourPassed
       IN  /\ Len(get_leaves_2d(out)) = 4 /\ Len(out.children) = 4
           /\ \A i \in 1..4 :
                 /\ is_leaf(out.children[i])
                 /\ width(out.children[i]) = 2 /\ height(out.children[i]) = 2
                 /\ out.children[i].prob = Fraction(1, 4)

\* C21 witness: an adaptive pass split the single-leaf root, and a child it made has
\* area > 1 and mass >= split_threshold, yet is a leaf at the end of the pass
C21_Witness ==
    /\ last.op = "adaptive" /\ is_leaf(prev) /\ ~is_leaf(root)
    /\ \E i \in 1..Len(root.children) :
          is_leaf(root.children[i]) /\ MeetsSplit(root.children[i])

\* the results of the last adaptive pass on the children of a block
RECURSIVE PassedChildren(_)
PassedChildren(cs) ==
    IF cs = <<>> THEN <<>> ELSE <<Passed(Head(cs))>> \o PassedChildren(Tail(cs))

\* the total leaf mass of a sequence of subtrees
RECURSIVE MassOf(_)
MassOf(cs) == IF cs = <<>> THEN Zero ELSE frac_add(LeafMass(Head(cs)), MassOf(Tail(cs)))

\* C22: in one adaptive pass a node that is internal on entry first has the pass
\* applied to every child, and is then merged into a leaf exactly when the total
\* mass of its children after that recursion is strictly less than merge_threshold;
\* the merged leaf holds that total and is not split again in the same pass; a node
\* that is not merged keeps the children the recursion produced.
C22_AdaptiveMergesBelowThresholdAfterRecursion ==
    /\ last.op = "adaptive" =>
          \A block \in Blocks(prev) :
              ~is_leaf(block) =>
                 LET kids  == PassedChildren(block.children)
                     total == MassOf(kids)
                 IN  /\ is_leaf(Passed(block)) <=> frac_lt(total, last.merge_thresh)
                     /\ is_leaf(Passed(block)) => Passed(block).prob = total
                     /\ ~is_leaf(Passed(block)) =>
                           Passed(block) = [block EXCEPT !.children = kids]
    /\ last.op = "adaptive" => root = Passed(prev)

\* C22 witness: an adaptive pass merged the internal root into a leaf that has
\* area > 1 and mass >= split_threshold, and that leaf is still a leaf
C22_Witness ==
    /\ last.op = "adaptive" /\ ~is_leaf(prev) /\ is_leaf(root)
    /\ MeetsSplit(root)


\* C23: on a tree that is a single leaf of mass m, a flow step with an open boundary
\* leaves the leaf with mass m * (1 - alpha), the outflow m * alpha being discarded,
\* and a flow step with a closed boundary leaves the mass equal to m; m = 3/10 and
\* alpha = 1/10 with an open boundary give 27/100.
C23_SingleLeafFlow ==
    (last.op = "flow" /\ is_leaf(prev)) =>
        /\ is_leaf(root)
        /\ last.boundary = "open" =>
              root.prob = frac_mul(prev.prob, frac_sub(One, last.alpha))
        /\ last.boundary = "closed" => root.prob = prev.prob
        /\ (last.boundary = "open" /\ prev.prob = Fraction(3, 10)
              /\ last.alpha = Fraction(1, 10)) => root.prob = Fraction(27, 100)

\* C23 witness: an open flow step with alpha = 1/10 on a single leaf of mass 3/10
C23_Witness ==
    /\ last.op = "flow" /\ is_leaf(prev)
    /\ last.boundary = "open" /\ last.alpha = Fraction(1, 10)
    /\ prev.prob = Fraction(3, 10)

\* C24: the degenerate calls leave the whole tree (structure, masses, precision
\* bounds) unchanged: split_block_2d on an internal node or on a leaf of area <= 1,
\* merge_block_2d on a leaf, and normalize_tree_2d on a tree of total mass 0.
C24_DegenerateCallsChangeNothing ==
    /\ (last.op = "split" /\ (~is_leaf(PrevTarget) \/ area(PrevTarget) <= 1))
          => root = prev
    /\ (last.op = "merge" /\ is_leaf(PrevTarget)) => root = prev
    /\ (last.op = "normalize" /\ LeafMass(prev) = Zero) => root = prev
    /\ TreeIsNew =>
          \A block \in Blocks(root) :
             /\ (~is_leaf(block) \/ area(block) <= 1) => split_block_2d(block) = block
             /\ is_leaf(block) => merge_block_2d(block) = block
             /\ LeafMass(block) = Zero => normalize_tree_2d(block) = block

\* C24 witness: normalize_tree_2d was called on a tree of total mass 0 that has an
\* internal node, a leaf of area 1 and a leaf of a larger area
C24_Witness ==
    /\ last.op = "normalize" /\ LeafMass(prev) = Zero
    /\ ~is_leaf(root)
    /\ \E block \in Blocks(root) : is_leaf(block) /\ area(block) = 1
    /\ \E block \in Blocks(root) : is_leaf(block) /\ area(block) > 1


\* the fraction lies in [0, 1]
InUnit(f) == frac_le(Zero, f) /\ frac_le(f, One)

\* C25: malformed inputs fail instead of producing or mutating a tree: no domain
\* with x_max < x_min or y_max < y_min is ever created, and an adaptive pass given a
\* split or merge threshold outside [0, 1] leaves the tree as it was.
C25_MalformedInputsFail ==
    /\ root.x_min <= root.x_max /\ root.y_min <= root.y_max
    /\ (last.op = "adaptive" /\ ~(InUnit(last.split_thresh) /\ InUnit(last.merge_thresh)))
          => root = prev


\* C26: in every reachable tree with at least two leaves every leaf has at least
\* one neighbour; so on such trees a flow step with an open boundary yields exactly
\* the tree a closed boundary yields and conserves the total mass, and an open flow
\* step loses mass only on a tree that is a single leaf.
C26_OpenFlowLosesMassOnlyOnSingleLeaf ==
    /\ LET leaves == get_leaves_2d(root)
           neighbor_map == find_neighbors_2d(leaves)
       IN  Len(leaves) >= 2 => \A i \in 1..Len(leaves) : neighbor_map[i] # <<>>
    /\ (last.op = "flow" /\ ~is_leaf(prev)) =>
          /\ root = flow_step_2d(prev, last.alpha,
                                 IF last.boundary = "open" THEN "closed" ELSE "open")
          /\ LeafMass(root) = LeafMass(prev)
    /\ (last.op = "flow" /\ LeafMass(root) # LeafMass(prev)) =>
          is_leaf(prev) /\ last.boundary = "open"

\* C26 witness: an open flow step that moved mass between the leaves of a tree with
\* an internal node below the root
C26_Witness ==
    /\ last.op = "flow" /\ last.boundary = "open"
    /\ root # prev
    /\ \E p \in Paths(prev) : p # <<>> /\ ~is_leaf(NodeAt(prev, p))

\* C27: split_block_2d on a leaf of area > 1 always succeeds: the node becomes
\* internal with exactly 4 children when width > 1 and height > 1 and exactly 2
\* children when width = 1 or height = 1; it never makes 3 children, and the list of
\* surviving quadrants never has fewer than 2 entries.
C27_SplitOfLargeLeafSucceeds ==
    /\ TreeIsNew =>
          \A block \in Blocks(root) :
             /\ Len(block.children) # 3
             /\ (is_leaf(block) /\ area(block) > 1) =>
                   LET after == split_block_2d(block)
                   IN  /\ Len(new_children(block)) > 1
                       /\ ~is_leaf(after)
                       /\ Len(after.children)
                             = IF width(block) > 1 /\ height(block) > 1 THEN 4 ELSE 2
    /\ (last.op = "split" /\ is_leaf(PrevTarget) /\ area(PrevTarget) > 1) =>
          /\ ~is_leaf(Target)
          /\ Len(Target.children)
                = IF width(PrevTarget) > 1 /\ height(PrevTarget) > 1 THEN 4 ELSE 2

\* C27 witness: a split gave a leaf of width 1 or height 1 two children, below a
\* root with four children that still has a leaf with width > 1 and height > 1
C27_Witness ==
    /\ DidSplit /\ last.path # <<>>
    /\ Len(Target.children) = 2
    /\ Len(root.children) = 4
    /\ \E block \in Blocks(root) : is_leaf(block) /\ width(block) > 1 /\ height(block) > 1


\* the divisors of refine_vantage_if_needed_2d on a block: block.vantage in
\* Fraction(1, block.vantage), and block.prob in Fraction(1, 1) / block.prob
RefineDivisors(block) ==
    IF block.prob = Zero \/ block.prob = One THEN {}
    ELSE {block.vantage}
         \cup (IF block.vantage # 0 /\ frac_lt(block.prob, Fraction(1, block.vantage))
               THEN {block.prob.numerator} ELSE {})

\* the divisors of the refinements in a call that took the tree before to the tree
\* after without changing its structure: each leaf is refined with its new mass
\* and the bound it had
LeafRefineDivisors(before, after) ==
    LET olds == get_leaves_2d(before)
        news == get_leaves_2d(after)
    IN  UNION {RefineDivisors([olds[i] EXCEPT !.prob = news[i].prob]) :
               i \in 1..Len(olds)}

\* the divisors of flow_step_2d: the neighbour counts in outflow / len(nbrs), and
\* those of the refinements
FlowDivisors(before, after) ==
    LET neighbor_map == find_neighbors_2d(get_leaves_2d(before))
    IN  {Len(neighbor_map[i]) : i \in {k \in 1..Len(neighbor_map) : neighbor_map[k] # <<>>}}
        \cup LeafRefineDivisors(before, after)

\* the divisors of normalize_tree_2d: the total in Fraction(1, 1) / total, and those
\* of the refinements
NormalizeDivisors(before, after) ==
    IF after = before THEN {}
    ELSE {sum_tree_2d(before).numerator} \cup LeafRefineDivisors(before, after)

\* the divisors of the last call
LastDivisors ==
    CASE last.op = "flow"      -> FlowDivisors(prev, root)
      [] last.op = "normalize" -> NormalizeDivisors(prev, root)
      [] last.op = "scale"     -> LeafRefineDivisors(prev, root)
      [] last.op = "tick"      ->
            LET flowed == flow_step_2d(prev, last.alpha, last.boundary)
                normed == normalize_tree_2d(flowed)
            IN  FlowDivisors(prev, flowed) \cup NormalizeDivisors(flowed, normed)
      [] OTHER                 -> {}

\* C28: no call ever divides by zero: normalize divides only by a positive total,
\* refinement only by a non-zero mass and a precision bound >= 1, flow only by a
\* non-zero neighbour count; every block keeps a precision bound >= 1 and a mass
\* with a positive denominator.
C28_NoDivisionByZero ==
    /\ \A block \in Blocks(root) : block.vantage >= 1 /\ block.prob.denominator >= 1
    /\ 0 \notin LastDivisors
    /\ (last.op = "normalize" /\ root # prev) => frac_lt(Zero, LeafMass(prev))

\* C28 witness: a tick on a tree of several leaves whose total is neither 0 nor 1,
\* in which a leaf's precision bound was raised: all three kinds of division ran
C28_Witness ==
    /\ last.op = "tick" /\ ~is_leaf(prev)
    /\ LeafMass(prev) # Zero /\ LeafMass(prev) # One
    /\ Cardinality(LastDivisors) >= 3
    /\ \E i \in 1..Len(get_leaves_2d(prev)) :
          get_leaves_2d(flow_step_2d(prev, last.alpha, last.boundary))[i].vantage
             > get_leaves_2d(prev)[i].vantage

\* C29: every leaf mass is >= 0 in every reachable state, and the total mass at the
\* end of every tick is at most 1.
C29_MassesNonNegativeAndTickAtMostOne ==
    /\ \A block \in Blocks(root) : frac_le(Zero, block.prob)
    /\ last.op = "tick" => frac_le(LeafMass(root), One)

\* C29 witness: a tick on a tree of several leaves whose total mass was above 1
C29_Witness ==
    /\ last.op = "tick" /\ ~is_leaf(prev)
    /\ frac_lt(One, LeafMass(prev))

\* a tree without its leaf masses and leaf precision bounds
RECURSIVE Skeleton(_)
RECURSIVE SkeletonOfChildren(_)
SkeletonOfChildren(cs) ==
    IF cs = <<>> THEN <<>> ELSE <<Skeleton(Head(cs))>> \o SkeletonOfChildren(Tail(cs))

Skeleton(node) ==
    IF is_leaf(node) THEN [node EXCEPT !.prob = Zero, !.vantage = 0]
    ELSE [node EXCEPT !.children = SkeletonOfChildren(node.children)]

\* C30: flow_step_2d, scale_tree_2d and normalize_tree_2d change only leaf masses
\* and leaf precision bounds: the nodes, their rectangles and their children lists
\* are as before; and no call changes the root's rectangle.
C30_FlowScaleNormalizeKeepStructure ==
    /\ last.op \in {"flow", "scale", "normalize"} => Skeleton(root) = Skeleton(prev)
    /\ Rect(root) = Rect(prev)

\* C30 witness: a normalization changed the masses of a tree with an internal node
\* below the root
C30_Witness ==
    /\ last.op = "normalize" /\ root # prev
    /\ \E p \in Paths(prev) : p # <<>> /\ ~is_leaf(NodeAt(prev, p))

=============================================================================
